---- MODULE Spec2Model ----
(***************************************************************************)
(* A model of choreworld.py: the weekly rotation (assign_chores), the      *)
(* calendar arithmetic (week_sunday, offset), the staged site build        *)
(* (Builder, generate), the notification fan-out (notify) and the          *)
(* endpoint table regeneration (ntfy_urls).                                *)
(*                                                                         *)
(* Each part of the program has its own specification (SpecAssign,         *)
(* SpecCalendar, SpecBuild, SpecNotify, SpecNtfy) over its own variables;  *)
(* the variables of the other parts stay at their initial values.  The     *)
(* calendar's render_chores writes into the scratch directory of a         *)
(* Builder, so SpecCalendar starts with a Builder constructed.             *)
(***************************************************************************)
EXTENDS Integers, Sequences, FiniteSets, TLC

VARIABLES
    \* ---- rotation assigner (assign_chores called week after week)
    a_pc,          \* "ready" | "called" | "checked" | "raised"
    a_offset,      \* the offset argument of the current call
    a_group,       \* the ChoreGroup argument: [chores, people]
    a_result,      \* outcome of the call
    a_again,       \* outcome of a second call with the same arguments
    a_hist,        \* outcomes of the calls so far, one per week
    \* ---- calendar: render_chores run at the instants of a wall clock
    c_clock,       \* get_current_date(): wall-clock hours since START_WEEK
    c_group,       \* the chore group of the rendered config
    c_builds,      \* what each render_chores run computed
    \* ---- site build: generate, with Builder as its context manager
    b_pc,          \* "idle" | "staging" | "exit" | "move" | "done" | "failed"
                   \* | "publish_failed"
    b_build,       \* number of the current build
    b_step,        \* next staging step of generate's with-body
    b_exc,         \* whether the with-body raised
    output_dir,    \* the live output directory
    tempdirs,      \* the scratch directory of each build
    b_before,      \* the live output directory as the build found it
    b_finalizer,   \* the finalizer of each build's TemporaryDirectory object:
                   \* "none" | "attached" | "detached" | "ran"
    \* ---- notify
    n_pc,          \* "source" | "person" | "done" | "aborted"
    n_offset,      \* current_offset
    n_configs,     \* what load_chores returns for each config path
    n_table,       \* path_endpoints, the endpoints file: a sequence of
                   \* [path, endpoints] in the order of the JSON object
    n_src,         \* position in n_table of the current config path
    n_people,      \* person_assignments of the current path, in dict order
    n_idx,         \* position in n_people of the next person
    n_posts,       \* the requests.post calls made so far
    n_error,       \* the exception that ended the run, if any
    \* ---- ntfy_urls
    u_config,      \* what load_chores returns for each config path
    u_file,        \* the endpoints file on disk
    u_stdout,      \* the table last written to standard output
    u_minted,      \* how many uuid4() values have been drawn so far
    u_runs,        \* ntfy_urls runs so far
    u_last         \* the last run: its options, what it read and computed

assignVars == <<a_pc, a_offset, a_group, a_result, a_again, a_hist>>

calendarVars == <<c_clock, c_group, c_builds>>

buildVars ==
    <<b_pc, b_build, b_step, b_exc, output_dir, tempdirs, b_before, b_finalizer>>

notifyVars ==
    <<n_pc, n_offset, n_configs, n_table, n_src, n_people, n_idx, n_posts, n_error>>

ntfyVars == <<u_config, u_file, u_stdout, u_minted, u_runs, u_last>>

vars == <<assignVars, calendarVars, buildVars, notifyVars, ntfyVars>>

----------------------------------------------------------------------------
(* Bounds of the model. *)

MaxChores == 2      \* longest chore list of a group
MaxPeople == 3      \* longest roster of a group
MaxOffset == 2      \* first offsets range over -MaxOffset..MaxOffset
MaxWeeks == 3       \* consecutive weekly calls in one behaviour
MaxDaysBefore == 7  \* the clock starts this many days before START_WEEK
MaxDaysAfter == 8   \* and stops this many days after it
MaxRenders == 2     \* render_chores runs in one behaviour
MaxBuilds == 2      \* generate runs in one behaviour
MaxRuns == 2        \* ntfy_urls runs in one behaviour

----------------------------------------------------------------------------
(* Data: chores and people. *)

Persons == {"ana", "ben", "cy"}

ChoreIds == {"bins", "mop", "dishes", "vacuum"}

\* str.title() on the chore ids used here
Title(s) ==
    CASE s = "bins" -> "Bins"
      [] s = "mop" -> "Mop"
      [] s = "dishes" -> "Dishes"
      [] s = "vacuum" -> "Vacuum"
      [] OTHER -> s

\* str.lower() on the display names used here
Lower(s) ==
    CASE s = "Bins" -> "bins"
      [] s = "Mop" -> "mop"
      [] s = "Dishes" -> "dishes"
      [] s = "Vacuum" -> "vacuum"
      [] s = "Hoover The Lounge" -> "hoover the lounge"
      [] OTHER -> s

\* Chore.from_dict on a plain string: id and title-cased name
ChoreFromId(d) == [id |-> d, name |-> Title(d)]

\* Chore.from_dict on a dict: d.get('name') or d['id'].title().  A name
\* that is missing, None or empty is written "" here.
ChoreFromDict(id, name) == [id |-> id, name |-> IF name = "" THEN Title(id) ELSE name]

Range(s) == {s[i] : i \in 1..Len(s)}

\* sequences of length n over S without repetition
DistinctSeqs(S, n) ==
    {s \in [1..n -> S] : \A i, j \in 1..n : i # j => s[i] # s[j]}

DistinctSeqsUpTo(S, n) == UNION {DistinctSeqs(S, m) : m \in 0..n}

\* sequences of length at most n over S; an element may occur repeatedly
SeqsUpTo(S, n) == UNION {[1..m -> S] : m \in 0..n}

\* ChoreGroup: the ordered chores (a dict keyed by chore id, so ids are
\* distinct) and the ordered roster
ChoreGroup(chores, people) == [chores |-> chores, people |-> people]


\* A file is [path, build, complete]: the build that wrote it stands for
\* its bytes, and a file that a failing staging step left behind is not
\* complete.
\*
\* A directory is [exists, files, damage, stuck].  files are the entries
\* that were written into it.  damage is 0 when all of them are there as
\* they were written; after a removal or a copy that failed partway it is
\* the number of the build that made it, and some of the entries are then
\* gone or cut short (which ones depends on the order in which the
\* directory lists its entries and on where the operation stopped).  stuck
\* says that a removal of the directory has failed: something in it could
\* not be removed.
NoDir == [exists |-> FALSE, files |-> {}, damage |-> 0, stuck |-> FALSE]

EmptyDir == [exists |-> TRUE, files |-> {}, damage |-> 0, stuck |-> FALSE]

File(path, build, complete) ==
    [path |-> path, build |-> build, complete |-> complete]
----------------------------------------------------------------------------
(* assign_chores *)

\* variants of PickPerson with a slip in the index arithmetic
PickPersonFromOne(i, offset, people) ==
    people[((i + 1 + offset) % Len(people)) + 1]

PickPersonNoOffset(i, offset, people) ==
    people[(i % Len(people)) + 1]

PickPersonBackwards(i, offset, people) ==
    people[((i - offset) % Len(people)) + 1]

\* The person picked for the chore at 0-based position i.  Sequences are
\* 1-based, Python lists 0-based.
PickPerson(i, offset, people) ==
    people[((i + offset) % Len(people)) + 1]

\* the dict comprehension, from position i on (0-based), added to acc
RECURSIVE AssignFrom(_, _, _, _)
AssignFrom(i, offset, group, acc) ==
    IF i >= Len(group.chores) THEN acc
    ELSE AssignFrom(i + 1, offset, group,
             (group.chores[i + 1].id :> PickPerson(i, offset, group.people))
                 @@ acc)

\* assign_chores(offset, group): the mapping chore id -> person, or the
\* ZeroDivisionError that (i + offset) % 0 raises on the first chore of a
\* group without people.  A group without chores never evaluates the
\* modulus.
assign_chores(offset, group) ==
    IF Len(group.chores) > 0 /\ Len(group.people) = 0
    THEN [raised |-> TRUE, error |-> "ZeroDivisionError", value |-> <<>>]
    ELSE [raised |-> FALSE, error |-> "",
          value |-> AssignFrom(0, offset, group, <<>>)]

NoResult == [raised |-> FALSE, error |-> "none", value |-> <<>>]

----------------------------------------------------------------------------
(* Weekly calls of assign_chores. *)

\* the groups load_chores can return: the chores are keyed by id, so no id
\* occurs twice; the roster is the list of the config as it stands, and a
\* name may occur in it more than once
AssignGroups ==
    {ChoreGroup([i \in 1..Len(cs) |-> ChoreFromId(cs[i])], ps) :
        cs \in DistinctSeqsUpTo(ChoreIds, MaxChores),
        ps \in SeqsUpTo(Persons, MaxPeople)}

AssignIdle ==
    /\ a_pc = "idle"
    /\ a_offset = 0
    /\ a_group = ChoreGroup(<<>>, <<>>)
    /\ a_result = NoResult
    /\ a_again = NoResult
    /\ a_hist = <<>>

AssignInit ==
    /\ a_pc = "ready"
    /\ a_offset \in -MaxOffset..MaxOffset
    /\ a_group \in AssignGroups
    /\ a_result = NoResult
    /\ a_again = NoResult
    /\ a_hist = <<>>

\* this week's call
AssignCall ==
    /\ a_pc = "ready"
    /\ LET r == assign_chores(a_offset, a_group)
       IN /\ a_result' = r
          /\ a_hist' = Append(a_hist, [offset |-> a_offset, result |-> r])
          /\ a_pc' = IF r.raised THEN "raised" ELSE "called"
    /\ UNCHANGED <<a_offset, a_group, a_again>>

\* the same call once more
AssignAgain ==
    /\ a_pc = "called"
    /\ a_again' = assign_chores(a_offset, a_group)
    /\ a_pc' = "checked"
    /\ UNCHANGED <<a_offset, a_group, a_result, a_hist>>

\* a week later the offset is one more
AssignNextWeek ==
    /\ a_pc = "checked"
    /\ Len(a_hist) < MaxWeeks
    /\ a_offset' = a_offset + 1
    /\ a_result' = NoResult
    /\ a_again' = NoResult
    /\ a_pc' = "ready"
    /\ UNCHANGED <<a_group, a_hist>>

----------------------------------------------------------------------------
(* Calendar: week_sunday and offset.                                       *)
(*                                                                         *)
(* Every datetime of the program carries the one tzinfo object TZINFO, and *)
(* Python adds a timedelta to, and subtracts, datetimes of one tzinfo on   *)
(* the wall clock.  A datetime is therefore modelled by its wall-clock     *)
(* hours since START_WEEK (negative before it).                            *)

\* datetime.datetime(2021, 4, 11, tzinfo=TZINFO), the origin of the hours
START_WEEK == 0

\* START_WEEK.weekday(): 11 April 2021 is a Sunday (Monday is 0)
START_WEEKDAY == 6

\* the calendar day of a datetime, in days since START_WEEK's day
DayOf(date) == date \div 24

\* the time of day of a datetime, in hours
HourOf(date) == date % 24

\* date.weekday()
weekday(date) == (DayOf(date) + START_WEEKDAY) % 7

\* (a - b).days: a timedelta is normalised to whole days (rounded down)
\* and a non-negative rest
TimedeltaDays(a, b) == (a - b) \div 24

\* date + datetime.timedelta(days=days)
PlusDays(date, days) == date + days * 24

\* offset(date)
offset(date) == TimedeltaDays(date, START_WEEK) \div 7

\* a variant of week_sunday anchored a day late
week_sunday_late(date) ==
    LET days == (7 - weekday(date)) % 7
    IN PlusDays(date, days)

\* week_sunday(date)
week_sunday(date) ==
    LET days == (6 - weekday(date)) % 7
    IN PlusDays(date, days)

\* Builder.render_chores up to the rendering context: the Sunday, the
\* offset and the assignment of the group
RenderContext(now, group) ==
    LET sunday == week_sunday(now)
        current_offset == offset(sunday)
    IN [now |-> now,
        sunday |-> sunday,
        current_offset |-> current_offset,
        group_assignments |-> assign_chores(current_offset, group)]

CalendarGroups ==
    {ChoreGroup(<<ChoreFromId("bins"), ChoreFromId("mop"), ChoreFromId("dishes")>>,
                <<"ana", "ben", "cy">>),
     ChoreGroup(<<ChoreFromId("bins"), ChoreFromId("mop"), ChoreFromId("dishes")>>,
                <<"ana", "ben">>)}

\* the first reading of the clock: 07:00 on the first day
FirstInstant == 7 - MaxDaysBefore * 24

CalendarIdle ==
    /\ c_clock = 0
    /\ c_group = ChoreGroup(<<>>, <<>>)
    /\ c_builds = <<>>

CalendarInit ==
    /\ c_clock = FirstInstant
    /\ c_group \in CalendarGroups
    /\ c_builds = <<>>

\* Builder(output): the Builder whose render_chores is run, just
\* constructed, with its empty scratch directory
CalendarBuilder ==
    /\ b_pc = "staging"
    /\ b_build = 1
    /\ b_step = 1
    /\ b_exc = FALSE
    /\ output_dir = NoDir
    /\ tempdirs = [n \in 1..MaxBuilds |-> IF n = 1 THEN EmptyDir ELSE NoDir]
    /\ b_before = NoDir
    /\ b_finalizer = [n \in 1..MaxBuilds |-> IF n = 1 THEN "attached" ELSE "none"]

\* the path arguments generate gives render_chores
RenderPaths == {"/", "/welly"}

\* render_template: path.lstrip('/') joined with 'index.html', relative to
\* the scratch directory
IndexFile(path) ==
    CASE path = "/" -> "index.html"
      [] path = "/welly" -> "welly/index.html"
      [] OTHER -> path

\* time passes
ClockTick ==
    /\ \E step \in {12, 24} :
          /\ c_clock + step < (MaxDaysAfter + 1) * 24
          /\ c_clock' = c_clock + step
    /\ UNCHANGED <<c_group, c_builds>>

\* Builder.render_chores(config, template, path) at the current instant:
\* the context is computed and render_template writes the page of the path
\* into the scratch directory of the Builder
RenderChores ==
    /\ Len(c_builds) < MaxRenders
    /\ c_builds' = Append(c_builds, RenderContext(c_clock, c_group))
    /\ \E path \in RenderPaths :
          tempdirs' = [tempdirs EXCEPT ![b_build].files =
                          {f \in @ : f.path # IndexFile(path)}
                              \cup {File(IndexFile(path), b_build, TRUE)}]
    /\ UNCHANGED <<c_clock, c_group>>
    /\ UNCHANGED <<b_pc, b_build, b_step, b_exc, output_dir, b_before, b_finalizer>>

----------------------------------------------------------------------------
(* Site build: generate and Builder.                                       *)
(*                                                                         *)
(* Directories and files are the records of the data section.  A staging  *)
(* step may raise in any build, and so may each file-system call of        *)
(* __exit__ (rmtree, move, cleanup) and the removal the finalizer of the   *)
(* TemporaryDirectory object makes.                                        *)

\* the steps of generate's with-body, in order: three copy_dir calls, the
\* two fixed files, the two render_chores calls
StagingSteps ==
    <<"static", "assets", "badges", "CNAME", ".nojekyll",
      "index.html", "welly/index.html">>

\* a live output directory that no build of this model wrote
ForeignOutput == [EmptyDir EXCEPT !.files = {File("index.html", 0, TRUE)}]

BuildIdle ==
    /\ b_pc = "off"
    /\ b_build = 0
    /\ b_step = 0
    /\ b_exc = FALSE
    /\ output_dir = NoDir
    /\ tempdirs = <<>>
    /\ b_before = NoDir
    /\ b_finalizer = <<>>

BuildInit ==
    /\ b_pc = "idle"
    /\ b_build = 0
    /\ b_step = 0
    /\ b_exc = FALSE
    /\ output_dir \in {NoDir, ForeignOutput}
    /\ tempdirs = [n \in 1..MaxBuilds |-> NoDir]
    /\ b_before = NoDir
    /\ b_finalizer = [n \in 1..MaxBuilds |-> "none"]

\* Builder.__init__: a fresh temporary directory, with the finalizer that
\* tempfile.TemporaryDirectory() registers for it, whatever became of the
\* scratch directories of the builds before
BuilderInit ==
    /\ b_pc \in {"idle", "done", "failed", "publish_failed"}
    /\ b_build < MaxBuilds
    /\ b_build' = b_build + 1
    /\ tempdirs' = [tempdirs EXCEPT ![b_build + 1] = EmptyDir]
    /\ b_finalizer' = [b_finalizer EXCEPT ![b_build + 1] = "attached"]
    /\ b_step' = 1
    /\ b_exc' = FALSE
    /\ b_before' = output_dir
    /\ b_pc' = "staging"
    /\ UNCHANGED output_dir

\* one step of the with-body succeeds: its output is in the scratch
\* directory
StageStepOk ==
    /\ b_pc = "staging"
    /\ b_step <= Len(StagingSteps)
    /\ tempdirs' = [tempdirs EXCEPT ![b_build].files =
                        @ \cup {File(StagingSteps[b_step], b_build, TRUE)}]
    /\ b_step' = b_step + 1
    /\ UNCHANGED <<b_pc, b_build, b_exc, output_dir, b_before, b_finalizer>>

\* one step of the with-body raises (a copy fails, a config does not load,
\* assign_chores raises, a template does not render), having written
\* nothing or a part of its output
StageStepRaises ==
    /\ b_pc = "staging"
    /\ b_step <= Len(StagingSteps)
    /\ \E partial \in BOOLEAN :
          tempdirs' = [tempdirs EXCEPT ![b_build].files =
                          IF partial
                          THEN @ \cup {File(StagingSteps[b_step], b_build, FALSE)}
                          ELSE @]
    /\ b_exc' = TRUE
    /\ b_pc' = "exit"
    /\ UNCHANGED <<b_build, b_step, output_dir, b_before, b_finalizer>>

\* the with-body ends without an exception
StageEnds ==
    /\ b_pc = "staging"
    /\ b_step > Len(StagingSteps)
    /\ b_pc' = "exit"
    /\ UNCHANGED <<b_build, b_step, b_exc, output_dir, tempdirs, b_before, b_finalizer>>

\* a variant of __exit__'s test that publishes whatever happened
ShouldPublishAlways(exc) == TRUE

\* __exit__: "if not exc"
ShouldPublish(exc) == ~exc

\* what a directory is after a removal of it that failed in the given
\* build: shutil.rmtree removes the entries in the order the directory
\* lists them, descends into the trees among them, and raises at the first
\* thing it cannot remove.  The directory is still there; it is as it was
\* when the removal stopped at the first thing it tried, and otherwise some
\* of its entries are gone or cut short.
PartlyRemoved(dir, build) ==
    {[dir EXCEPT !.stuck = TRUE]}
    \cup (IF dir.files = {} THEN {}
          ELSE {[dir EXCEPT !.stuck = TRUE, !.damage = build]})

\* what the destination is after a copy of the directory that failed in
\* the given build: shutil.copytree goes on after an entry fails and raises
\* at the end, so the destination exists; some of the entries are missing
\* or cut short, or all of them have been copied whole and the copy raised
\* all the same
PartlyCopied(dir, build) ==
    {[dir EXCEPT !.damage = d] : d \in (IF dir.files = {} THEN {0} ELSE {0, build})}

\* a variant of cleanup that leaves the directory where it is
CleanupKeeps(dir) == dir

\* self._tempdir.cleanup() when its removal succeeds
Cleanup(dir) == NoDir

\* __exit__ after an exception: self._tempdir.cleanup() detaches the
\* finalizer and removes the scratch directory
ExitCleanup ==
    /\ b_pc = "exit"
    /\ ~ShouldPublish(b_exc)
    /\ \/ tempdirs' = [tempdirs EXCEPT ![b_build] = Cleanup(@)]
       \* cleanup raises: its rmtree stopped partway
       \/ \E left \in PartlyRemoved(tempdirs[b_build], b_build) :
             tempdirs' = [tempdirs EXCEPT ![b_build] = left]
    /\ b_finalizer' = [b_finalizer EXCEPT ![b_build] = "detached"]
    /\ b_pc' = "failed"
    /\ UNCHANGED <<b_build, b_step, b_exc, output_dir, b_before>>

\* __exit__ without an exception: shutil.rmtree(self.output_dir) when it
\* exists
ExitRmtree ==
    /\ b_pc = "exit"
    /\ ShouldPublish(b_exc)
    /\ IF output_dir.exists
       THEN \/ /\ output_dir' = NoDir
               /\ b_pc' = "move"
            \* rmtree raises
            \/ /\ output_dir' \in PartlyRemoved(output_dir, b_build)
               /\ b_pc' = "publish_failed"
       ELSE /\ b_pc' = "move"
            /\ UNCHANGED output_dir
    /\ UNCHANGED <<b_build, b_step, b_exc, tempdirs, b_before, b_finalizer>>

\* __exit__ without an exception: shutil.move(self.tempdir, self.output_dir)
\* renames the directory, or, across file systems, copies the tree and
\* then removes the source
ExitMove ==
    /\ b_pc = "move"
    /\ \/ /\ output_dir' = tempdirs[b_build]
          /\ tempdirs' = [tempdirs EXCEPT ![b_build] = NoDir]
          /\ b_pc' = "done"
       \* move raises
       \/ /\ b_pc' = "publish_failed"
          /\ \* before anything is moved
             \/ UNCHANGED <<output_dir, tempdirs>>
             \* in the copy: the scratch directory is as it was
             \/ /\ output_dir' \in PartlyCopied(tempdirs[b_build], b_build)
                /\ UNCHANGED tempdirs
             \* in the removal of the source, after the copy
             \/ /\ output_dir' = tempdirs[b_build]
                /\ \E left \in PartlyRemoved(tempdirs[b_build], b_build) :
                      tempdirs' = [tempdirs EXCEPT ![b_build] = left]
    /\ UNCHANGED <<b_build, b_step, b_exc, b_before, b_finalizer>>

\* The tempfile.TemporaryDirectory object of a build that has ended is
\* destroyed (the Builder is garbage collected, or the interpreter exits)
\* with its finalizer still attached and the directory still at its place:
\* the finalizer removes the directory, and its removal may fail as any
\* other.  A finalizer runs once; cleanup() has detached it.
ImplicitCleanup ==
    /\ \E n \in 1..b_build :
          /\ n < b_build \/ b_pc \in {"done", "failed", "publish_failed"}
          /\ b_finalizer[n] = "attached"
          /\ tempdirs[n].exists
          /\ \/ tempdirs' = [tempdirs EXCEPT ![n] = NoDir]
             \/ \E left \in PartlyRemoved(tempdirs[n], n) :
                   tempdirs' = [tempdirs EXCEPT ![n] = left]
          /\ b_finalizer' = [b_finalizer EXCEPT ![n] = "ran"]
    /\ UNCHANGED <<b_pc, b_build, b_step, b_exc, output_dir, b_before>>

----------------------------------------------------------------------------
(* notify: one message per person and config path.                         *)
(*                                                                         *)
(* A config is the ordered dict load_chores returns, modelled as the       *)
(* sequence of its groups [id, chores, people].  An ordered dict           *)
(* person -> list of chores is a sequence of [person, chores].             *)

Group(id, chores, people) == [id |-> id, chores |-> chores, people |-> people]

\* position of the person in the ordered dict pa, or 0
PersonIndex(pa, person) ==
    IF \E k \in 1..Len(pa) : pa[k].person = person
    THEN CHOOSE k \in 1..Len(pa) : pa[k].person = person
    ELSE 0

\* person_assignments.setdefault(person, []).append(chore)
SetDefaultAppend(pa, person, chore) ==
    LET k == PersonIndex(pa, person)
    IN IF k = 0
       THEN Append(pa, [person |-> person, chores |-> <<chore>>])
       ELSE [pa EXCEPT ![k].chores = Append(@, chore)]

\* the inner loop over assignments.items() of one group, from the chore at
\* position i (1-based) on
RECURSIVE AddGroupChores(_, _, _, _)
AddGroupChores(pa, group, assignments, i) ==
    IF i > Len(group.chores) THEN pa
    ELSE AddGroupChores(
             SetDefaultAppend(pa, assignments[group.chores[i].id], group.chores[i]),
             group, assignments, i + 1)

\* the outer loop over group_assignments.items(), from group g on
RECURSIVE PersonAssignments(_, _, _, _)
PersonAssignments(pa, groups, offs, g) ==
    IF g > Len(groups) THEN pa
    ELSE PersonAssignments(
             AddGroupChores(pa, groups[g], assign_chores(offs, groups[g]).value, 1),
             groups, offs, g + 1)

\* whether building group_assignments raises: assign_chores raises for one
\* of the groups
GroupAssignmentsRaise(groups, offs) ==
    \E g \in 1..Len(groups) : assign_chores(offs, groups[g]).raised

\* ', '.join(c.name for c in chores), as the sequence of its pieces
RECURSIVE JoinNames(_)
JoinNames(chores) ==
    IF Len(chores) = 0 THEN <<>>
    ELSE IF Len(chores) = 1 THEN <<chores[1].name>>
    ELSE <<chores[1].name, ", ">> \o JoinNames(Tail(chores))

\* chores_list: the text naming the chores, as the sequence of its pieces
\* (names at the odd positions, separators at the even ones)
chores_list(chores) ==
    LET num_chores == Len(chores)
    IN IF num_chores = 1 THEN <<Lower(chores[1].name)>>
       ELSE IF num_chores = 2
       THEN <<Lower(chores[1].name), " and ", Lower(chores[2].name)>>
       ELSE JoinNames(SubSeq(chores, 1, num_chores - 1))
                \o <<", and ", chores[num_chores].name>>

\* the endpoint issued to a person under a config path
Endpoint(path, person) == [path |-> path, person |-> person]

\* the configs of the two paths
ChchConfig ==
    <<Group("main",
            <<ChoreFromId("bins"), ChoreFromId("mop"), ChoreFromId("dishes")>>,
            <<"ana", "ben">>),
      Group("lounge",
            <<ChoreFromDict("vacuum", "Hoover The Lounge")>>,
            <<"ana", "cy">>)>>

\* the second chore is a dict with an id and no name
WellyConfig ==
    <<Group("flat", <<ChoreFromId("bins"), ChoreFromDict("mop", "")>>,
            <<"ana", "ben", "cy">>)>>

\* a config with a group that has a chore and nobody to do it
WellyNobodyConfig ==
    <<Group("flat", <<ChoreFromId("bins"), ChoreFromDict("mop", "")>>,
            <<"ana", "ben", "cy">>),
      Group("garden", <<ChoreFromId("dishes")>>, <<>>)>>

NotifyConfigs ==
    {[p \in {"chch.yaml", "welly.yaml"} |->
         IF p = "chch.yaml" THEN ChchConfig ELSE w] :
     w \in {WellyConfig, WellyNobodyConfig}}

\* the endpoint table with an endpoint for everybody but the people in
\* missing (pairs of path and person)
TableWithout(missing) ==
    [i \in 1..2 |->
        LET path == IF i = 1 THEN "chch.yaml" ELSE "welly.yaml"
        IN [path |-> path,
            endpoints |-> [person \in {q \in Persons : <<path, q>> \notin missing}
                              |-> Endpoint(path, person)]]]

\* endpoint tables: complete, or without one person under one path
NotifyTables ==
    {TableWithout({})} \cup
    {TableWithout({<<path, person>>}) :
        path \in {"chch.yaml", "welly.yaml"}, person \in Persons}

NotifyIdle ==
    /\ n_pc = "off"
    /\ n_offset = 0
    /\ n_configs = <<>>
    /\ n_table = <<>>
    /\ n_src = 0
    /\ n_people = <<>>
    /\ n_idx = 0
    /\ n_posts = <<>>
    /\ n_error = ""

NotifyInit ==
    /\ n_pc = "source"
    /\ n_offset \in 0..MaxOffset
    /\ n_configs \in NotifyConfigs
    /\ n_table \in NotifyTables
    /\ n_src = 1
    /\ n_people = <<>>
    /\ n_idx = 0
    /\ n_posts = <<>>
    /\ n_error = ""

\* the head of the loop over path_endpoints.items(): load the config and
\* build group_assignments and person_assignments
NotifySource ==
    /\ n_pc = "source"
    /\ n_src <= Len(n_table)
    /\ LET groups == n_configs[n_table[n_src].path]
       IN IF GroupAssignmentsRaise(groups, n_offset)
          THEN /\ n_pc' = "aborted"
               /\ n_error' = "ZeroDivisionError"
               /\ UNCHANGED <<n_people, n_idx>>
          ELSE /\ n_people' = PersonAssignments(<<>>, groups, n_offset, 1)
               /\ n_idx' = 1
               /\ n_pc' = "person"
               /\ UNCHANGED n_error
    /\ UNCHANGED <<n_offset, n_configs, n_table, n_src, n_posts>>

\* a requests.post call as the sink may answer it: a 2xx response, another
\* response (returned like any response: notify does not look at it), or
\* an exception
SinkOutcomes == {"ok", "non2xx", "raises"}

\* whether requests.post ends the run: only an exception does
PostAborts(outcome) == outcome = "raises"

\* the body of the loop over person_assignments.items() for one person
NotifyPerson ==
    /\ n_pc = "person"
    /\ n_idx <= Len(n_people)
    /\ LET person == n_people[n_idx].person
           chores == n_people[n_idx].chores
           endpoints == n_table[n_src].endpoints
       IN IF person \notin DOMAIN endpoints
          THEN \* endpoints[person] raises
               /\ n_pc' = "aborted"
               /\ n_error' = "KeyError"
               /\ UNCHANGED <<n_idx, n_posts>>
          ELSE \E outcome \in SinkOutcomes :
               /\ n_posts' = Append(n_posts,
                      [path |-> n_table[n_src].path,
                       person |-> person,
                       endpoint |-> endpoints[person],
                       chores_list |-> chores_list(chores),
                       outcome |-> outcome])
               /\ IF PostAborts(outcome)
                  THEN /\ n_pc' = "aborted"
                       /\ n_error' = "RequestException"
                       /\ UNCHANGED n_idx
                  ELSE /\ n_idx' = n_idx + 1
                       /\ UNCHANGED <<n_pc, n_error>>
    /\ UNCHANGED <<n_offset, n_configs, n_table, n_src, n_people>>

\* the people of the path are done: on to the next path
NotifyNextSource ==
    /\ n_pc = "person"
    /\ n_idx > Len(n_people)
    /\ n_src' = n_src + 1
    /\ n_pc' = "source"
    /\ UNCHANGED <<n_offset, n_configs, n_table, n_people, n_idx, n_posts, n_error>>

\* the loop over the paths is done
NotifyReturns ==
    /\ n_pc = "source"
    /\ n_src > Len(n_table)
    /\ n_pc' = "done"
    /\ UNCHANGED <<n_offset, n_configs, n_table, n_src, n_people, n_idx, n_posts, n_error>>

----------------------------------------------------------------------------
(* ntfy_urls: the endpoint table, regenerated.                             *)
(*                                                                         *)
(* A table is a function config path -> (person -> endpoint); an endpoint  *)
(* is [host, uuid].  uuid.uuid4() is modelled by the number of the draw:   *)
(* two draws never return the same value.                                  *)

ConfigPaths == <<"chch.yaml", "welly.yaml">>

\* get_people(chore_groups): list(set(all_people)).  The order in which a
\* set of strings is listed depends on the hashes of the strings, which
\* differ from one interpreter run to the next, so this is the set of the
\* lists the call can return: the people once each, in any order.
get_people(groups) ==
    LET all_people == UNION {Range(groups[g].people) : g \in 1..Len(groups)}
    IN DistinctSeqs(all_people, Cardinality(all_people))

\* the values path_people can have: for each config path one of the lists
\* get_people can return
PathPeople(config) ==
    {path_people \in [Range(ConfigPaths) ->
                         UNION {get_people(config[path]) : path \in Range(ConfigPaths)}] :
        \A path \in Range(ConfigPaths) : path_people[path] \in get_people(config[path])}

\* host.rstrip("/") on the hosts used here
RStripSlash(host) ==
    CASE host = "https://ntfy.sh/" -> "https://ntfy.sh"
      [] host = "https://push.example//" -> "https://push.example"
      [] OTHER -> host

Hosts == {"https://ntfy.sh/", "https://push.example//"}

\* f'{host.rstrip("/")}/{uuid.uuid4()}' with the n-th uuid drawn
FreshEndpoint(host, n) == [host |-> RStripSlash(host), uuid |-> n]

\* existing_endpoints.get(path, {})
ExistingFor(existing_endpoints, path) ==
    IF path \in DOMAIN existing_endpoints THEN existing_endpoints[path] ELSE <<>>

\* a variant of the lookup that never uses the existing endpoint
EndpointAlwaysFresh(existing_path_endpoints, person, fresh) == fresh

\* existing_path_endpoints.get(person, fresh)
EndpointFor(existing_path_endpoints, person, fresh) ==
    IF person \in DOMAIN existing_path_endpoints
    THEN existing_path_endpoints[person]
    ELSE fresh

\* position of x in the list s
IndexIn(s, x) == CHOOSE k \in 1..Len(s) : s[k] = x

\* the inner loop: path_endpoints of one path.  The default of .get is
\* evaluated for every person, so the k-th person of the list uses up the
\* k-th draw after the drawn ones.
PathEndpoints(people, existing_path_endpoints, host, drawn) ==
    [person \in Range(people) |->
        EndpointFor(existing_path_endpoints, person,
                    FreshEndpoint(host, drawn + IndexIn(people, person)))]

\* the outer loop over path_people.items(): the table of the paths from
\* position i on
RECURSIVE Endpoints(_, _, _, _, _)
Endpoints(path_people, existing_endpoints, host, drawn, i) ==
    IF i > Len(ConfigPaths) THEN <<>>
    ELSE LET path == ConfigPaths[i]
             people == path_people[path]
         IN (path :> PathEndpoints(people, ExistingFor(existing_endpoints, path),
                                   host, drawn))
            @@ Endpoints(path_people, existing_endpoints, host,
                         drawn + Len(people), i + 1)

RECURSIVE SumLen(_, _)
SumLen(path_people, i) ==
    IF i > Len(ConfigPaths) THEN 0
    ELSE Len(path_people[ConfigPaths[i]]) + SumLen(path_people, i + 1)

NoFile == [exists |-> FALSE, table |-> <<>>]

\* an endpoints file written by hand: ana has an endpoint under chch.yaml
HandWritten ==
    [exists |-> TRUE,
     table |-> ("chch.yaml" :> ("ana" :> [host |-> "https://old.example", uuid |-> 0]))]

ChchSolo ==
    <<Group("main", <<ChoreFromId("bins"), ChoreFromId("mop")>>, <<"ana">>)>>

WellyTrio ==
    <<Group("flat", <<ChoreFromId("bins")>>, <<"ben", "ana">>),
      Group("yard", <<ChoreFromId("mop")>>, <<"ana", "cy">>)>>

ChchDuo ==
    <<Group("main", <<ChoreFromId("bins"), ChoreFromId("mop")>>, <<"ana", "ben">>)>>

NtfyConfigs ==
    {[p \in Range(ConfigPaths) |-> IF p = "chch.yaml" THEN c ELSE w] :
        c \in {ChchSolo, ChchDuo}, w \in {WellyTrio}}

NoRun ==
    [ran |-> FALSE, existing |-> FALSE, error |-> "", host |-> "",
     output_path |-> "", existing_endpoints |-> <<>>, path_people |-> <<>>,
     endpoints |-> <<>>]

NtfyIdle ==
    /\ u_config = <<>>
    /\ u_file = NoFile
    /\ u_stdout = <<>>
    /\ u_minted = 0
    /\ u_runs = 0
    /\ u_last = NoRun

NtfyInit ==
    /\ u_config \in NtfyConfigs
    /\ u_file \in {NoFile, HandWritten}
    /\ u_stdout = <<>>
    /\ u_minted = 0
    /\ u_runs = 0
    /\ u_last = NoRun

\* ntfy_urls --host host --output output_path [--existing]
NtfyUrls ==
    /\ u_runs < MaxRuns
    /\ u_runs' = u_runs + 1
    /\ \E host \in Hosts, output_path \in {"-", "endpoints.json"}, existing \in BOOLEAN :
          LET output_exists == output_path = "endpoints.json" /\ u_file.exists
          IN IF existing /\ ~output_exists
             THEN \* click.ClickException: path does not exist
                  /\ u_last' = [NoRun EXCEPT !.ran = TRUE, !.existing = existing,
                                             !.error = "ClickException", !.host = host,
                                             !.output_path = output_path]
                  /\ UNCHANGED <<u_file, u_stdout, u_minted>>
             ELSE \E path_people \in PathPeople(u_config) :
                  LET existing_endpoints == IF existing THEN u_file.table ELSE <<>>
                      endpoints ==
                          Endpoints(path_people, existing_endpoints, host, u_minted, 1)
                  IN /\ u_minted' = u_minted + SumLen(path_people, 1)
                     /\ IF output_path = "-"
                        THEN /\ u_stdout' = endpoints
                             /\ UNCHANGED u_file
                        ELSE /\ u_file' = [exists |-> TRUE, table |-> endpoints]
                             /\ UNCHANGED u_stdout
                     /\ u_last' = [ran |-> TRUE, existing |-> existing, error |-> "",
                                   host |-> host, output_path |-> output_path,
                                   existing_endpoints |-> existing_endpoints,
                                   path_people |-> path_people,
                                   endpoints |-> endpoints]
    /\ UNCHANGED u_config

\* between two runs the configs are edited: people come and go
ConfigEdited ==
    /\ u_runs < MaxRuns
    /\ u_last.ran \/ u_runs = 0
    /\ u_config' \in NtfyConfigs \ {u_config}
    /\ u_last' = NoRun
    /\ UNCHANGED <<u_file, u_stdout, u_minted, u_runs>>

----------------------------------------------------------------------------
(* Specifications: one per part of the program. *)

AssignNext ==
    \/ AssignCall /\ UNCHANGED <<calendarVars, buildVars, notifyVars, ntfyVars>>
    \/ AssignAgain /\ UNCHANGED <<calendarVars, buildVars, notifyVars, ntfyVars>>
    \/ AssignNextWeek /\ UNCHANGED <<calendarVars, buildVars, notifyVars, ntfyVars>>

InitAssign ==
    /\ AssignInit
    /\ CalendarIdle
    /\ BuildIdle
    /\ NotifyIdle
    /\ NtfyIdle

SpecAssign == InitAssign /\ [][AssignNext]_vars

CalendarNext ==
    \/ ClockTick /\ UNCHANGED <<assignVars, buildVars, notifyVars, ntfyVars>>
    \/ RenderChores /\ UNCHANGED <<assignVars, notifyVars, ntfyVars>>

InitCalendar ==
    /\ AssignIdle
    /\ CalendarInit
    /\ CalendarBuilder
    /\ NotifyIdle
    /\ NtfyIdle

SpecCalendar == InitCalendar /\ [][CalendarNext]_vars

BuildNext ==
    \/ BuilderInit /\ UNCHANGED <<assignVars, calendarVars, notifyVars, ntfyVars>>
    \/ StageStepOk /\ UNCHANGED <<assignVars, calendarVars, notifyVars, ntfyVars>>
    \/ StageStepRaises /\ UNCHANGED <<assignVars, calendarVars, notifyVars, ntfyVars>>
    \/ StageEnds /\ UNCHANGED <<assignVars, calendarVars, notifyVars, ntfyVars>>
    \/ ExitCleanup /\ UNCHANGED <<assignVars, calendarVars, notifyVars, ntfyVars>>
    \/ ExitRmtree /\ UNCHANGED <<assignVars, calendarVars, notifyVars, ntfyVars>>
    \/ ExitMove /\ UNCHANGED <<assignVars, calendarVars, notifyVars, ntfyVars>>
    \/ ImplicitCleanup /\ UNCHANGED <<assignVars, calendarVars, notifyVars, ntfyVars>>

InitBuild ==
    /\ AssignIdle
    /\ CalendarIdle
    /\ BuildInit
    /\ NotifyIdle
    /\ NtfyIdle

SpecBuild == InitBuild /\ [][BuildNext]_vars

\* The build where every process comes to its end: a TemporaryDirectory
\* object whose finalizer is attached is destroyed at the latest when the
\* interpreter exits, so the finalizer does not stay pending for ever.
SpecBuildLive ==
    InitBuild /\ [][BuildNext]_vars /\ WF_vars(ImplicitCleanup /\ UNCHANGED <<assignVars, calendarVars, notifyVars, ntfyVars>>)

NotifyNext ==
    \/ NotifySource /\ UNCHANGED <<assignVars, calendarVars, buildVars, ntfyVars>>
    \/ NotifyPerson /\ UNCHANGED <<assignVars, calendarVars, buildVars, ntfyVars>>
    \/ NotifyNextSource /\ UNCHANGED <<assignVars, calendarVars, buildVars, ntfyVars>>
    \/ NotifyReturns /\ UNCHANGED <<assignVars, calendarVars, buildVars, ntfyVars>>

InitNotify ==
    /\ AssignIdle
    /\ CalendarIdle
    /\ BuildIdle
    /\ NotifyInit
    /\ NtfyIdle

SpecNotify == InitNotify /\ [][NotifyNext]_vars

NtfyNext ==
    \/ NtfyUrls /\ UNCHANGED <<assignVars, calendarVars, buildVars, notifyVars>>
    \/ ConfigEdited /\ UNCHANGED <<assignVars, calendarVars, buildVars, notifyVars>>

InitNtfy ==
    /\ AssignIdle
    /\ CalendarIdle
    /\ BuildIdle
    /\ NotifyIdle
    /\ NtfyInit

SpecNtfy == InitNtfy /\ [][NtfyNext]_vars

----------------------------------------------------------------------------
(* Properties of the rotation. *)

AssignReturned == a_pc \in {"called", "checked", "raised"}

\* j is (n mod m) in the mathematical sense: 0 <= j < m and m divides n - j
IsResidue(j, n, m) ==
    /\ j \in 0..(m - 1)
    /\ \E q \in -(MaxOffset + MaxWeeks + MaxChores)..(MaxOffset + MaxWeeks + MaxChores) :
           n - j = q * m

\* the chore id at 0-based position i of the group
ChoreAt(i) == a_group.chores[i + 1].id

\* C4: for every offset (negative ones too) and every non-empty roster,
\* assign_chores returns without raising a mapping defined on exactly the
\* chores of the group, the chore at 0-based position i is mapped to
\* people[(i + offset) mod len(people)], which is a member of the roster,
\* and a second call with the same arguments returns the same mapping.
C4_AssignTotalPure ==
    (AssignReturned /\ Len(a_group.people) >= 1) =>
        /\ ~a_result.raised
        /\ DOMAIN a_result.value = {ChoreAt(i) : i \in 0..(Len(a_group.chores) - 1)}
        /\ \A i \in 0..(Len(a_group.chores) - 1) :
              /\ a_result.value[ChoreAt(i)] \in Range(a_group.people)
              /\ \E j \in 0..(Len(a_group.people) - 1) :
                    /\ IsResidue(j, i + a_offset, Len(a_group.people))
                    /\ a_result.value[ChoreAt(i)] = a_group.people[j + 1]
        /\ (a_pc = "checked" => a_again = a_result)

\* a negative offset that wraps around a roster of three, two chores, both
\* calls made
C4_Witness ==
    /\ a_pc = "checked"
    /\ a_offset = -MaxOffset
    /\ Len(a_group.people) = 3
    /\ Len(a_group.chores) = 2

\* the persons a chore id had in the window of p weeks starting at hist
\* index s
WindowPersons(c, s, p) == {a_hist[s + d].result.value[c] : d \in 0..(p - 1)}

\* C5 as stated: over any p consecutive offsets (0..p-1 among them), p the
\* number of people of the group, every chore has every person of the
\* roster as its assignee exactly once.
C5_FairnessAsStated ==
    LET p == Len(a_group.people)
    IN \A s \in 1..Len(a_hist) :
          (p >= 1 /\ s + p - 1 <= Len(a_hist)) =>
              \A i \in 0..(Len(a_group.chores) - 1) :
                  /\ WindowPersons(ChoreAt(i), s, p) = Range(a_group.people)
                  /\ \A d, e \in 0..(p - 1) :
                        d # e => a_hist[s + d].result.value[ChoreAt(i)]
                                   # a_hist[s + e].result.value[ChoreAt(i)]

\* how many of the p weeks from hist index s on the person has chore c
WeeksServed(person, c, s, p) ==
    Cardinality({d \in 0..(p - 1) : a_hist[s + d].result.value[c] = person})

\* how many positions of the roster hold the person
RosterPositions(person) ==
    Cardinality({j \in 1..Len(a_group.people) : a_group.people[j] = person})

\* C5, amended: over any p consecutive offsets (0..p-1 among them), p the
\* length of the roster, every chore is assigned to a person as many times
\* as the roster lists that person: exactly once when the roster lists the
\* person once, never when the person is not on the roster.
C5_RotationFairness ==
    LET p == Len(a_group.people)
    IN \A s \in 1..Len(a_hist) :
          (p >= 1 /\ s + p - 1 <= Len(a_hist)) =>
              \A i \in 0..(Len(a_group.chores) - 1) :
                  \A person \in Persons :
                      WeeksServed(person, ChoreAt(i), s, p) = RosterPositions(person)

\* the offsets 0, 1, 2 of a group of two chores whose roster of three
\* lists one person twice
C5_Witness ==
    /\ Len(a_group.people) = 3
    /\ Cardinality(Range(a_group.people)) = 2
    /\ Len(a_group.chores) = 2
    /\ Len(a_hist) >= 3
    /\ a_hist[1].offset = 0

\* C7: assign_chores on a group without people raises and returns no
\* assignment, whatever the chore list (the empty one included).
C7_EmptyRosterRaises ==
    (AssignReturned /\ Len(a_group.people) = 0) => a_result.raised

\* the position before i, cyclically, among count chores
PrevPosition(i, count) == IF i = 0 THEN count - 1 ELSE i - 1

\* C10 as stated: whoever has the chore at position i at offset k has the
\* chore at position (i - 1) mod count at offset k + 1, with no condition on
\* the two sizes.
C10_ShiftAsStated ==
    \A w \in 1..(Len(a_hist) - 1) :
        \A i \in 0..(Len(a_group.chores) - 1) :
            a_hist[w + 1].result.value[ChoreAt(PrevPosition(i, Len(a_group.chores)))]
                = a_hist[w].result.value[ChoreAt(i)]

\* C10, amended: whoever has the chore at position i >= 1 at offset k has
\* the chore at position i - 1 at offset k + 1; for i = 0 the person has the
\* last chore (position count - 1) at offset k + 1 when count is a multiple
\* of the number of people.
C10_RotationShift ==
    \A w \in 1..(Len(a_hist) - 1) :
        \A i \in 0..(Len(a_group.chores) - 1) :
            (i >= 1 \/ Len(a_group.chores) % Len(a_group.people) = 0) =>
                a_hist[w + 1].result.value[ChoreAt(PrevPosition(i, Len(a_group.chores)))]
                    = a_hist[w].result.value[ChoreAt(i)]

\* two weeks of a group with two chores and two people (the wrap-around
\* case)
C10_Witness ==
    /\ Len(a_hist) >= 2
    /\ Len(a_group.chores) = 2
    /\ Len(a_group.people) = 2
    /\ a_hist[2].offset = a_hist[1].offset + 1

----------------------------------------------------------------------------
(* Properties of the calendar. *)

\* the Monday-to-Sunday week of a datetime: day 1 (12 April 2021) is a
\* Monday, so days 1..7 are week 0
MondayWeek(date) == (DayOf(date) - 1) \div 7

\* C6 as stated: two instants of one Monday-to-Sunday week have the same
\* week_sunday day and the same offset, and builds at them the same
\* assignment.
C6_SameWeekAsStated ==
    \A i, j \in 1..Len(c_builds) :
        MondayWeek(c_builds[i].now) = MondayWeek(c_builds[j].now) =>
            /\ DayOf(week_sunday(c_builds[i].now)) = DayOf(week_sunday(c_builds[j].now))
            /\ offset(c_builds[i].now) = offset(c_builds[j].now)
            /\ c_builds[i].group_assignments = c_builds[j].group_assignments

\* C6, amended: for two instants of one Monday-to-Sunday week, week_sunday
\* returns the same calendar day, the Sunday that ends that week (each
\* result keeps the time of day of its instant), offset applied to these
\* two results, as render_chores applies it, returns the same integer, and
\* builds at the two instants compute the same assignment.
C6_WeekBoundaryDeterminism ==
    \A i, j \in 1..Len(c_builds) :
        MondayWeek(c_builds[i].now) = MondayWeek(c_builds[j].now) =>
            /\ DayOf(c_builds[i].sunday) = DayOf(c_builds[j].sunday)
            /\ DayOf(c_builds[i].sunday) = 7 * (MondayWeek(c_builds[i].now) + 1)
            /\ HourOf(c_builds[i].sunday) = HourOf(c_builds[i].now)
            /\ c_builds[i].current_offset = c_builds[j].current_offset
            /\ c_builds[i].group_assignments = c_builds[j].group_assignments

\* a build on the Monday and a build on the Sunday of one week before
\* START_WEEK, at different times of day
C6_Witness ==
    /\ Len(c_builds) = 2
    /\ c_builds[1].now < 0
    /\ weekday(c_builds[1].now) = 0
    /\ weekday(c_builds[2].now) = 6
    /\ MondayWeek(c_builds[1].now) = MondayWeek(c_builds[2].now)
    /\ HourOf(c_builds[1].now) # HourOf(c_builds[2].now)
----------------------------------------------------------------------------
(* Properties of the build. *)

BuildEnded == b_pc \in {"done", "failed", "publish_failed"}

\* C1: once a staging step of a build has raised, the live output directory
\* is in every later state of that build what the build found; the live
\* output differs from what the build found only in a build all of whose
\* staging steps succeeded.
C1_BuildAtomicity ==
    /\ (b_build >= 1 /\ b_exc) => output_dir = b_before
    /\ (b_build >= 1 /\ output_dir # b_before) =>
           (~b_exc /\ b_step > Len(StagingSteps) /\ b_pc \in {"move", "done", "publish_failed"})

\* the second build fails in the rendering of its second path, after the
\* first build published; the failed build has ended
C1_Witness ==
    /\ b_build = 2
    /\ b_exc
    /\ b_step = Len(StagingSteps)
    /\ b_pc = "failed"
    /\ output_dir.exists
    /\ \E f \in output_dir.files : f.build = 1

\* build n has ended: its __exit__ has returned or raised
Ended(n) == b_build > n \/ (b_build = n /\ BuildEnded)

\* C9 as stated: on every exit path the scratch directory of a build is in
\* the end moved to the live output location or deleted: once a build has
\* ended, its scratch directory is eventually not at its temporary location
\* any more.
C9_ReleasedAsStated ==
    \A n \in 1..MaxBuilds : Ended(n) ~> ~tempdirs[n].exists

\* C9, amended: a build that publishes, and a build whose staging raised
\* and whose cleanup succeeds, end with the scratch directory moved or
\* deleted; every other build that has ended has its scratch directory
\* deleted in the end by the finalizer, unless a removal of the scratch
\* directory itself has failed.
C9_ScratchReleased ==
    /\ [](b_pc = "done" => ~tempdirs[b_build].exists)
    /\ [](\A n \in 1..MaxBuilds :
             (Ended(n) /\ tempdirs[n].exists /\ ~tempdirs[n].stuck)
                 => b_finalizer[n] = "attached")
    /\ \A n \in 1..MaxBuilds :
          Ended(n) ~> (~tempdirs[n].exists \/ tempdirs[n].stuck)

\* a build whose rmtree of the live output raised has ended, and the
\* finalizer has since deleted its scratch directory
C9_Witness ==
    /\ b_pc = "publish_failed"
    /\ output_dir.exists
    /\ output_dir.stuck
    /\ b_finalizer[b_build] = "ran"
    /\ ~tempdirs[b_build].exists

----------------------------------------------------------------------------
(* Properties of notify. *)

NotifyEnded == n_pc \in {"done", "aborted"}

\* the chores (group and position) the rotation gives the person under the
\* config path at the run's offset
AssignedTo(path, person) ==
    LET groups == n_configs[path]
    IN {gi \in UNION {{<<g, i>> : i \in 1..Len(groups[g].chores)} : g \in 1..Len(groups)} :
           /\ Len(groups[gi[1]].people) > 0
           /\ groups[gi[1]].people[((gi[2] - 1 + n_offset) % Len(groups[gi[1]].people)) + 1]
                 = person}

\* the posts made for the person under the config path
PostsFor(path, person) ==
    {k \in 1..Len(n_posts) : n_posts[k].path = path /\ n_posts[k].person = person}

\* the text names exactly the given chores, each as often as it is given
ListsExactly(text, path, chores) ==
    LET groups == n_configs[path]
        NameOf(gi) == Lower(groups[gi[1]].chores[gi[2]].name)
        named == {m \in 1..Len(text) : m % 2 = 1}
    IN /\ Len(text) = 2 * Cardinality(chores) - 1
       /\ \A gi \in chores :
             Cardinality({m \in named : Lower(text[m]) = NameOf(gi)})
                 = Cardinality({hj \in chores : NameOf(hj) = NameOf(gi)})

\* every person with a chore under a path of the table has exactly one post
\* for that path, naming exactly that person's chores; nobody else has one
FanOutExact ==
    \A s \in 1..Len(n_table) : \A person \in Persons :
        LET path == n_table[s].path
            chores == AssignedTo(path, person)
        IN IF chores = {}
           THEN PostsFor(path, person) = {}
           ELSE /\ Cardinality(PostsFor(path, person)) = 1
                /\ \A k \in PostsFor(path, person) :
                      ListsExactly(n_posts[k].chores_list, path, chores)

NoSinkCallFailed == \A k \in 1..Len(n_posts) : n_posts[k].outcome = "ok"

\* C2: a failed delivery to one person (the sink raises or answers non-2xx,
\* or the person has no endpoint) does not keep the run from attempting the
\* delivery to everybody else: when the run has ended, every person with a
\* chore and an endpoint under a path of the table has a post.
C2_FailureIsolation ==
    (NotifyEnded /\ n_error # "ZeroDivisionError") =>
        \A s \in 1..Len(n_table) : \A person \in Persons :
            (/\ AssignedTo(n_table[s].path, person) # {}
             /\ person \in DOMAIN n_table[s].endpoints)
                => PostsFor(n_table[s].path, person) # {}

\* C3: in a run in which no sink call fails, every person with a chore
\* under a source of the endpoint table is sent exactly one message for that
\* source, naming each of that person's chores once, and nobody else is
\* sent one.
C3_FanOutAsStated ==
    (NotifyEnded /\ NoSinkCallFailed) => FanOutExact

----------------------------------------------------------------------------
(* Properties of ntfy_urls. *)

\* the endpoints that occur in a table
EndpointsOf(table) ==
    {table[path][person] : <<path, person>> \in
        UNION {{<<p, q>> : q \in DOMAIN table[p]} : p \in DOMAIN table}}

MergeRun == u_last.ran /\ u_last.existing /\ u_last.error = ""

HadEndpoint(path, person) ==
    /\ path \in DOMAIN u_last.existing_endpoints
    /\ person \in DOMAIN u_last.existing_endpoints[path]

\* C8: a run with --existing gives every person of the roster of a config
\* path who has an endpoint under that path in the existing table that same
\* endpoint, and every other person of the roster a fresh endpoint: one
\* that occurs nowhere in the existing table and differs from every other
\* endpoint of the result.
C8_EndpointMerge ==
    MergeRun =>
        \A i \in 1..Len(ConfigPaths) :
            LET path == ConfigPaths[i]
            IN /\ DOMAIN u_last.endpoints[path] = Range(u_last.path_people[path])
               /\ \A person \in Range(u_last.path_people[path]) :
                     IF HadEndpoint(path, person)
                     THEN u_last.endpoints[path][person]
                              = u_last.existing_endpoints[path][person]
                     ELSE /\ u_last.endpoints[path][person]
                                 \notin EndpointsOf(u_last.existing_endpoints)
                          /\ \A j \in 1..Len(ConfigPaths) :
                                \A other \in Range(u_last.path_people[ConfigPaths[j]]) :
                                    <<j, other>> # <<i, person>> =>
                                        u_last.endpoints[ConfigPaths[j]][other]
                                            # u_last.endpoints[path][person]

\* a run with --existing on the table of an earlier run, after the roster
\* of chch.yaml grew: ana keeps the endpoint issued before, ben gets a fresh
\* one, and ana's endpoint under chch.yaml is not used for ana under
\* welly.yaml
C8_Witness ==
    /\ MergeRun
    /\ u_runs >= 2
    /\ HadEndpoint("chch.yaml", "ana")
    /\ "ben" \in Range(u_last.path_people["chch.yaml"])
    /\ ~HadEndpoint("chch.yaml", "ben")
    /\ u_last.existing_endpoints["chch.yaml"]["ana"].uuid > 0

====
